---- MODULE Spec2Model ----
(***************************************************************************)
(* Credential lifecycle of the Google Drive MCP server (src/server.py):    *)
(* the TokenStore (anti-forgery state tokens, the owner's credential       *)
(* record and its lazy refresh) and the two OAuth handlers that drive it.  *)
(*                                                                         *)
(* Time is counted in whole minutes.  Every handler is an `async def` that *)
(* calls the blocking requests.post on the event loop, so a handler runs   *)
(* from its first line to its return without another handler in between:   *)
(* each handler is one action.                                             *)
(***************************************************************************)
EXTENDS Integers, FiniteSets, Sequences, TLC

\* ---------------------------------------------------------------- bounds
MaxEvents == 3      \* state tokens minted plus clock advances in one behaviour
MaxRequests == 2    \* requests that are in flight at the same time

\* ------------------------------------------------------ program constants
TTL == 10                   \* timedelta(minutes=10), state token lifetime
RefreshThreshold == 50      \* timedelta(minutes=50), record refresh age
OWNER_EMAIL == "owner"      \* os.getenv("OWNER_EMAIL", ...)

\* ------------------------------------------------------------ value sets
Absent == "absent"          \* a key a dict does not hold / a None parameter
NoState == 0                \* the callback carries no state parameter
Forged == MaxEvents + 1     \* a well-formed state value that was never issued
NoStamp == 0 - 1            \* a token dict that has no "stored_at" key
None == << >>               \* Optional[dict]: None
Some(r) == << r >>          \* Optional[dict]: a dict

Identities == {OWNER_EMAIL, "other"}
AccessTokens == {"A1", "A2"}
RefreshTokens == {"R1", "R2"}
ClockSteps == {TTL, RefreshThreshold, RefreshThreshold + 1}

\* What one POST to the token endpoint can produce: a 200 with a JSON object
\* (each key present or not), a non-200 status, or an exception: a
\* requests.exceptions.Timeout, or any other one ("error": no connection, a
\* body that is not JSON).
ExceptionKinds == {"timeout", "error"}
NoResp == [kind |-> "none", access_token |-> Absent, refresh_token |-> Absent]
Responses ==
    [kind : {"ok"}, access_token : AccessTokens \cup {Absent},
     refresh_token : RefreshTokens \cup {Absent}]
    \cup [kind : {"status"} \cup ExceptionKinds, access_token : {Absent},
          refresh_token : {Absent}]

VARIABLES
    now,        \* datetime.utcnow(), minutes
    ticks,      \* clock advances so far
    configured, \* CLIENT_ID, CLIENT_SECRET and REDIRECT_URI are all set
    states,     \* TokenStore.states: live state token -> issue time
    tokens,     \* TokenStore.tokens: user id -> credential record
    nextTok,    \* the next value secrets.token_urlsafe returns
    issuedAt,   \* history: every token generate_state returned -> its time
    used,       \* history: tokens for which verify_state returned True
    storedIds,  \* history: user ids store_token was called for
    reqs,       \* the requests in flight on the event loop, by slot
    last        \* the call that produced this state: inputs and outputs

vars == << now, ticks, configured, states, tokens, nextTok, issuedAt, used,
           storedIds, reqs, last >>

\* A request slot: a request that has arrived waits ("pending") until the
\* event loop runs its handler; the handler is "running" while it is inside
\* requests.post, and "done" when it has returned.  ripe: the request could
\* succeed when it arrived (callback: its state was valid; resolve: the
\* record was due for a refresh); stamp: the stored_at a resolve saw on
\* arrival; snap: the token_data a running resolve read from the store;
\* srv: whether the token endpoint will answer or stay silent.
Slots == 1 .. MaxRequests
Idle ==
    [phase |-> "idle", op |-> "none", state |-> NoState, ripe |-> FALSE,
     stamp |-> NoStamp, snap |-> None, srv |-> "none",
     verified |-> "notcalled", calls |-> 0, kind |-> "none", status |-> 0,
     served |-> "none"]
Gone == [Idle EXCEPT !.phase = "gone"]

NoCall ==
    [op |-> "init", id |-> Absent, state |-> NoState, code |-> FALSE,
     error |-> FALSE, status |-> 0, reason |-> "", verified |-> "notcalled",
     live |-> FALSE, calls |-> 0, resp |-> NoResp, ret |-> None,
     raised |-> FALSE]

\* ------------------------------------------------------------ TokenStore

\* generate_state: record the new token, then keep the tokens v > cutoff.
GenerateState(sts, tok, t) ==
    LET added == [k \in DOMAIN sts \cup {tok} |->
                    IF k = tok THEN t ELSE sts[k]]
        cutoff == t - TTL
        kept == {k \in DOMAIN added : added[k] > cutoff}
    IN  [k \in kept |-> added[k]]

\* A verify_state that leaves an accepted token in the live set.
VerifyStateKeeps(sts, state, t) ==
    IF state \notin DOMAIN sts
    THEN [ret |-> FALSE, states |-> sts]
    ELSE IF t - sts[state] > TTL
    THEN [ret |-> FALSE, states |-> [k \in DOMAIN sts \ {state} |-> sts[k]]]
    ELSE [ret |-> TRUE, states |-> sts]

\* A verify_state that does not look at the age of the token.
VerifyStateNoExpiry(sts, state, t) ==
    IF state \notin DOMAIN sts
    THEN [ret |-> FALSE, states |-> sts]
    ELSE [ret |-> TRUE, states |-> [k \in DOMAIN sts \ {state} |-> sts[k]]]

\* A verify_state that returns on an expired token without deleting it.
VerifyStateKeepsExpired(sts, state, t) ==
    IF state \notin DOMAIN sts
    THEN [ret |-> FALSE, states |-> sts]
    ELSE IF t - sts[state] > TTL
    THEN [ret |-> FALSE, states |-> sts]
    ELSE [ret |-> TRUE, states |-> [k \in DOMAIN sts \ {state} |-> sts[k]]]

\* verify_state: [ret, states].
VerifyState(sts, state, t) ==
    IF state \notin DOMAIN sts
    THEN [ret |-> FALSE, states |-> sts]
    ELSE LET rest == [k \in DOMAIN sts \ {state} |-> sts[k]]
         IN  IF t - sts[state] > TTL
             THEN [ret |-> FALSE, states |-> rest]
             ELSE [ret |-> TRUE, states |-> rest]

\* A store_token that keeps only the access token.
StoreTokenDropsRefresh(tks, user_id, token_data, t) ==
    [k \in DOMAIN tks \cup {user_id} |->
        IF k = user_id
        THEN [token_data EXCEPT !.stored_at = t, !.refresh_token = Absent]
        ELSE tks[k]]

\* store_token: {**token_data, "stored_at": utcnow()} under user_id.
StoreToken(tks, user_id, token_data, t) ==
    [k \in DOMAIN tks \cup {user_id} |->
        IF k = user_id THEN [token_data EXCEPT !.stored_at = t] ELSE tks[k]]

\* A get_token that falls back to the owner's record.
GetTokenFallback(tks, user_id) ==
    IF user_id \in DOMAIN tks THEN Some(tks[user_id])
    ELSE IF OWNER_EMAIL \in DOMAIN tks THEN Some(tks[OWNER_EMAIL])
    ELSE None

\* get_token
GetToken(tks, user_id) ==
    IF user_id \notin DOMAIN tks THEN None ELSE Some(tks[user_id])

\* An except clause that lets a timeout through.
RefreshCatchesNoTimeout == ExceptionKinds \ {"timeout"}

\* The exceptions the try block of refresh_token_if_needed swallows:
\* `except Exception`.
RefreshCatches == ExceptionKinds

\* A staleness test that is off by one at the threshold.
NeedsRefreshAtThreshold(stored_at, t) == t - stored_at >= RefreshThreshold

\* utcnow() - stored_at > timedelta(minutes=50)
NeedsRefresh(stored_at, t) == t - stored_at > RefreshThreshold

\* A refresh that takes the response as it is.
KeepRefreshTokenDropped(new_refresh, refresh_token) == new_refresh

\* if "refresh_token" not in new_token: new_token["refresh_token"] = refresh_token
KeepRefreshToken(new_refresh, refresh_token) ==
    IF new_refresh = Absent THEN refresh_token ELSE new_refresh

\* A refresh_token_if_needed that posts a second time when the first POST
\* fails (and fails again).
RefreshTokenIfNeededRetries(tks, user_id, resp, t) ==
    LET token_data == GetToken(tks, user_id)
    IN  IF token_data = None
        THEN [ret |-> None, tokens |-> tks, calls |-> 0, raised |-> FALSE]
        ELSE
          LET rec == token_data[1]
          IN  IF NeedsRefresh(rec.stored_at, t) /\ rec.refresh_token # Absent
              THEN
                IF resp.kind = "ok"
                THEN
                  LET new_token ==
                        [access_token |-> resp.access_token,
                         refresh_token |->
                            KeepRefreshToken(resp.refresh_token,
                                             rec.refresh_token),
                         stored_at |-> NoStamp]
                  IN  [ret |-> Some(new_token),
                       tokens |-> StoreToken(tks, user_id, new_token, t),
                       calls |-> 1, raised |-> FALSE]
                ELSE [ret |-> token_data, tokens |-> tks, calls |-> 2,
                      raised |-> FALSE]
              ELSE [ret |-> token_data, tokens |-> tks, calls |-> 0,
                    raised |-> FALSE]

\* refresh_token_if_needed with `resp` the answer a POST would get:
\* [ret, tokens, calls, raised].
RefreshTokenIfNeeded(tks, user_id, resp, t) ==
    LET token_data == GetToken(tks, user_id)
    IN  IF token_data = None
        THEN [ret |-> None, tokens |-> tks, calls |-> 0, raised |-> FALSE]
        ELSE
          LET rec == token_data[1]
              refresh_token == rec.refresh_token
          IN  IF NeedsRefresh(rec.stored_at, t) /\ refresh_token # Absent
              THEN
                IF resp.kind = "ok"
                THEN
                  LET new_token ==
                        [access_token |-> resp.access_token,
                         refresh_token |->
                            KeepRefreshToken(resp.refresh_token, refresh_token),
                         stored_at |-> NoStamp]
                  IN  [ret |-> Some(new_token),
                       tokens |-> StoreToken(tks, user_id, new_token, t),
                       calls |-> 1, raised |-> FALSE]
                ELSE IF resp.kind \in ExceptionKinds
                        /\ resp.kind \notin RefreshCatches
                THEN [ret |-> None, tokens |-> tks, calls |-> 1,
                      raised |-> TRUE]
                ELSE [ret |-> token_data, tokens |-> tks, calls |-> 1,
                      raised |-> FALSE]
              ELSE [ret |-> token_data, tokens |-> tks, calls |-> 0,
                    raised |-> FALSE]

\* --------------------------------------------------------------- handlers

\* A start_auth that does not test the configuration.
StartAuthNoConfigCheck(sts, cfg, tok, t) ==
    [status |-> 200, states |-> GenerateState(sts, tok, t)]

\* start_auth: [status, states].
StartAuth(sts, cfg, tok, t) ==
    IF ~cfg
    THEN [status |-> 500, states |-> sts]
    ELSE [status |-> 200, states |-> GenerateState(sts, tok, t)]

\* An exchange step that stores the body before it looks at the status.
ExchangeAndStoreAnyStatus(sts, tks, resp, t) ==
    LET body == [access_token |-> resp.access_token,
                 refresh_token |-> resp.refresh_token, stored_at |-> NoStamp]
        stored == StoreToken(tks, OWNER_EMAIL, body, t)
    IN  IF resp.kind = "timeout"
        THEN [status |-> 504, reason |-> "timeout", verified |-> "true",
              calls |-> 1, states |-> sts, tokens |-> tks]
        ELSE IF resp.kind \in ExceptionKinds
        THEN [status |-> 500, reason |-> "unexpected", verified |-> "true",
              calls |-> 1, states |-> sts, tokens |-> tks]
        ELSE IF resp.kind # "ok"
        THEN [status |-> 500, reason |-> "exchange_failed",
              verified |-> "true", calls |-> 1, states |-> sts,
              tokens |-> stored]
        ELSE [status |-> 200, reason |-> "connected", verified |-> "true",
              calls |-> 1, states |-> sts, tokens |-> stored]

\* An exchange step that forgets the owner's record when the exchange fails.
ExchangeAndStoreClearsOnFailure(sts, tks, resp, t) ==
    LET cleared == [k \in DOMAIN tks \ {OWNER_EMAIL} |-> tks[k]]
    IN  IF resp.kind = "timeout"
        THEN [status |-> 504, reason |-> "timeout", verified |-> "true",
              calls |-> 1, states |-> sts, tokens |-> cleared]
        ELSE IF resp.kind \in ExceptionKinds
        THEN [status |-> 500, reason |-> "unexpected", verified |-> "true",
              calls |-> 1, states |-> sts, tokens |-> cleared]
        ELSE IF resp.kind # "ok"
        THEN [status |-> 500, reason |-> "exchange_failed",
              verified |-> "true", calls |-> 1, states |-> sts,
              tokens |-> cleared]
        ELSE [status |-> 200, reason |-> "connected", verified |-> "true",
              calls |-> 1, states |-> sts,
              tokens |-> StoreToken(tks, OWNER_EMAIL,
                           [access_token |-> resp.access_token,
                            refresh_token |-> resp.refresh_token,
                            stored_at |-> NoStamp], t)]

\* The try block of oauth_callback, entered once the state is verified: one
\* POST, then 504 on a timeout, 500 on any other exception or on a status
\* that is not 200, else store_token(OWNER_EMAIL, token_resp.json()).
ExchangeAndStore(sts, tks, resp, t) ==
    IF resp.kind = "timeout"
    THEN [status |-> 504, reason |-> "timeout", verified |-> "true",
          calls |-> 1, states |-> sts, tokens |-> tks]
    ELSE IF resp.kind \in ExceptionKinds
    THEN [status |-> 500, reason |-> "unexpected", verified |-> "true",
          calls |-> 1, states |-> sts, tokens |-> tks]
    ELSE IF resp.kind # "ok"
    THEN [status |-> 500, reason |-> "exchange_failed", verified |-> "true",
          calls |-> 1, states |-> sts, tokens |-> tks]
    ELSE
      LET token_data ==
            [access_token |-> resp.access_token,
             refresh_token |-> resp.refresh_token, stored_at |-> NoStamp]
      IN  [status |-> 200, reason |-> "connected", verified |-> "true",
           calls |-> 1, states |-> sts,
           tokens |-> StoreToken(tks, OWNER_EMAIL, token_data, t)]

\* A 400 answer of oauth_callback.
Reject(reason, verified, sts, tks) ==
    [status |-> 400, reason |-> reason, verified |-> verified, calls |-> 0,
     states |-> sts, tokens |-> tks]

\* A callback that exchanges the code whatever verify_state answered.
OauthCallbackUnchecked(sts, tks, code, state, error, resp, t) ==
    IF error THEN Reject("oauth_error", "notcalled", sts, tks)
    ELSE IF ~code THEN Reject("missing_code", "notcalled", sts, tks)
    ELSE IF state = NoState THEN ExchangeAndStore(sts, tks, resp, t)
    ELSE LET v == VerifyState(sts, state, t)
         IN  [ExchangeAndStore(v.states, tks, resp, t) EXCEPT
                 !.verified = IF v.ret THEN "true" ELSE "false"]

\* A callback that verifies the state before it looks at error and code.
OauthCallbackVerifyFirst(sts, tks, code, state, error, resp, t) ==
    LET v == IF state = NoState THEN [ret |-> FALSE, states |-> sts]
             ELSE VerifyState(sts, state, t)
        called == IF state = NoState THEN "notcalled"
                  ELSE IF v.ret THEN "true" ELSE "false"
    IN  IF ~v.ret THEN Reject("csrf", called, v.states, tks)
        ELSE IF error THEN Reject("oauth_error", called, v.states, tks)
        ELSE IF ~code THEN Reject("missing_code", called, v.states, tks)
        ELSE ExchangeAndStore(v.states, tks, resp, t)

\* oauth_callback on the query parameters code (present or not), state and
\* error (present or not), with `resp` the answer its POST would get:
\* [status, reason, verified, calls, states, tokens].
OauthCallback(sts, tks, code, state, error, resp, t) ==
    IF error THEN Reject("oauth_error", "notcalled", sts, tks)
    ELSE IF ~code THEN Reject("missing_code", "notcalled", sts, tks)
    ELSE IF state = NoState THEN Reject("csrf", "notcalled", sts, tks)
    ELSE LET v == VerifyState(sts, state, t)
         IN  IF ~v.ret THEN Reject("csrf", "false", v.states, tks)
             ELSE ExchangeAndStore(v.states, tks, resp, t)

\* ---------------------------------------------------------------- actions

Init ==
    /\ now = 0
    /\ ticks = 0
    /\ configured \in BOOLEAN
    /\ states = << >>
    /\ tokens = << >>
    /\ nextTok = 1
    /\ issuedAt = << >>
    /\ used = {}
    /\ storedIds = {}
    /\ reqs = [i \in Slots |-> Idle]
    /\ last = NoCall

\* Tokens minted and clock advances so far.
Events == (nextTok - 1) + ticks

\* The clock moves between two requests.
Tick ==
    /\ Events < MaxEvents
    /\ \E d \in ClockSteps : now' = now + d
    /\ ticks' = ticks + 1
    /\ last' = [NoCall EXCEPT !.op = "tick"]
    /\ UNCHANGED << configured, states, tokens, nextTok, issuedAt, used,
                    storedIds, reqs >>

\* GET /auth
BeginRedirect ==
    /\ Events < MaxEvents
    /\ LET r == StartAuth(states, configured, nextTok, now)
       IN  /\ states' = r.states
           /\ nextTok' = IF r.status = 200 THEN nextTok + 1 ELSE nextTok
           /\ issuedAt' = IF r.status = 200
                          THEN [k \in DOMAIN issuedAt \cup {nextTok} |->
                                  IF k = nextTok THEN now ELSE issuedAt[k]]
                          ELSE issuedAt
           /\ last' = [NoCall EXCEPT !.op = "start_auth",
                          !.status = r.status,
                          !.state = IF r.status = 200 THEN nextTok ELSE NoState]
    /\ UNCHANGED << now, ticks, configured, tokens, used, storedIds, reqs >>

\* The answers the token endpoint can give to this callback: none when the
\* handler returns before its POST.
CallbackAnswers(code, state, error) ==
    IF OauthCallback(states, tokens, code, state, error, NoResp, now).calls = 0
    THEN {NoResp} ELSE Responses

\* The same for a refresh.
RefreshAnswers(id) ==
    IF RefreshTokenIfNeeded(tokens, id, NoResp, now).calls = 0
    THEN {NoResp} ELSE Responses

\* GET /oauth2callback
CompleteCallback ==
    \E code \in BOOLEAN, error \in BOOLEAN,
       state \in {NoState, Forged} \cup DOMAIN issuedAt :
      \E resp \in CallbackAnswers(code, state, error) :
        LET r == OauthCallback(states, tokens, code, state, error, resp, now)
        IN  /\ states' = r.states
            /\ tokens' = r.tokens
            /\ used' = IF r.verified = "true" THEN used \cup {state} ELSE used
            /\ storedIds' = IF r.status = 200
                            THEN storedIds \cup {OWNER_EMAIL} ELSE storedIds
            /\ last' = [NoCall EXCEPT !.op = "callback", !.state = state,
                           !.code = code, !.error = error,
                           !.live = state \in DOMAIN states,
                           !.status = r.status, !.reason = r.reason,
                           !.verified = r.verified, !.calls = r.calls,
                           !.resp = resp]
            /\ UNCHANGED << now, ticks, configured, nextTok, issuedAt, reqs >>

\* token_store.refresh_token_if_needed(user_id): list_drive_files and
\* search_drive_files call it with OWNER_EMAIL.
Resolve ==
    \E id \in Identities : \E resp \in RefreshAnswers(id) :
        LET r == RefreshTokenIfNeeded(tokens, id, resp, now)
        IN  /\ tokens' = r.tokens
            /\ storedIds' = IF r.tokens # tokens
                            THEN storedIds \cup {id} ELSE storedIds
            /\ last' = [NoCall EXCEPT !.op = "resolve", !.id = id,
                           !.calls = r.calls, !.ret = r.ret,
                           !.raised = r.raised,
                           !.resp = resp]
            /\ UNCHANGED << now, ticks, configured, states, nextTok, issuedAt,
                            used, reqs >>

\* token_store.get_token(user_id): get_auth_status, health and root.
Get ==
    \E id \in Identities :
        /\ last' = [NoCall EXCEPT !.op = "get", !.id = id,
                       !.ret = GetToken(tokens, id)]
        /\ UNCHANGED << now, ticks, configured, states, tokens, nextTok,
                        issuedAt, used, storedIds, reqs >>

Next == Tick \/ BeginRedirect \/ CompleteCallback \/ Resolve \/ Get

Spec == Init /\ [][Next]_vars

\* ------------------------------------------- requests on the event loop
\* The same handlers, seen as requests that arrive at any time and are run
\* by the one event loop; what a request did is kept in its slot, and last
\* is not used.  oauth_callback and the tools are `async def` and
\* contain no await: requests.post blocks the loop until it returns.

\* Handlers that would yield the loop while they wait for the POST.
LoopFreeAlways == TRUE

\* The loop can start a handler: none is inside a blocking requests.post.
LoopFree == \A i \in Slots : reqs[i].phase # "running"

\* A POST without a timeout returns only if the server answers.
PostReturnsIfAnswered(srv) == srv = "answers"

\* requests.post(..., timeout=10) returns or raises whatever the server does.
PostReturns(srv) == TRUE

\* What requests.post gives for a server that answers or stays silent; of
\* the 200 bodies, one with a refresh token and one without.
PostAnswers(srv) ==
    IF srv = "silent"
    THEN {[kind |-> "timeout", access_token |-> Absent,
           refresh_token |-> Absent]}
    ELSE {r \in Responses :
            r.kind = "ok" => \/ r.access_token = "A1" /\ r.refresh_token = "R1"
                             \/ r.access_token = "A2" /\ r.refresh_token = Absent}

\* No request is waiting or running.
Quiet == \A i \in Slots : reqs[i].phase \in {"idle", "done", "gone"}

\* The record a resolve of the owner would refresh, if any.
DueForRefresh ==
    /\ OWNER_EMAIL \in DOMAIN tokens
    /\ NeedsRefresh(tokens[OWNER_EMAIL].stored_at, now)
    /\ tokens[OWNER_EMAIL].refresh_token # Absent

\* A request arrives: a callback with a code and an issued state, or a tool
\* call that resolves the owner's credential.
Arrive ==
    \E i \in Slots :
        /\ reqs[i].phase = "idle"
        /\ \A j \in Slots : j < i => reqs[j].phase # "idle"
        /\ \/ \E state \in DOMAIN issuedAt :
                reqs' = [reqs EXCEPT ![i] =
                    [Idle EXCEPT !.phase = "pending", !.op = "callback",
                        !.state = state,
                        !.ripe = VerifyState(states, state, now).ret]]
           \/ reqs' = [reqs EXCEPT ![i] =
                    [Idle EXCEPT !.phase = "pending", !.op = "resolve",
                        !.ripe = DueForRefresh,
                        !.stamp = IF OWNER_EMAIL \in DOMAIN tokens
                                  THEN tokens[OWNER_EMAIL].stored_at
                                  ELSE NoStamp]]
        /\ UNCHANGED << now, ticks, configured, states, tokens, nextTok,
                        issuedAt, used, storedIds, last >>

\* The handler of slot i returns with the outcome q; of the request that
\* returned before it only the fact that it has returned is kept.
Returned(i, q) ==
    [j \in Slots |->
        IF j = i THEN [q EXCEPT !.phase = "done"]
        ELSE IF reqs[j].phase = "done" THEN Gone ELSE reqs[j]]

\* The loop runs the handler of a waiting request up to its return or, if
\* it gets that far, into its requests.post.
StartCallback(i) ==
    LET q == reqs[i]
        r == OauthCallback(states, tokens, TRUE, q.state, FALSE, NoResp, now)
    IN  /\ states' = r.states
        /\ used' = IF r.verified = "true" THEN used \cup {q.state} ELSE used
        /\ IF r.calls = 0
           THEN reqs' = Returned(i, [q EXCEPT !.verified = r.verified,
                                                 !.status = r.status])
           ELSE \E srv \in {"answers", "silent"} :
                  reqs' = [reqs EXCEPT ![i] =
                    [q EXCEPT !.phase = "running", !.verified = r.verified,
                        !.calls = r.calls, !.srv = srv]]
        /\ UNCHANGED tokens

StartResolve(i) ==
    LET q == reqs[i]
        r == RefreshTokenIfNeeded(tokens, OWNER_EMAIL, NoResp, now)
    IN  /\ IF r.calls = 0
           THEN reqs' = Returned(i, [q EXCEPT !.served =
                            IF r.ret = None THEN "absent" ELSE "stored"])
           ELSE \E srv \in {"answers", "silent"} :
                  reqs' = [reqs EXCEPT ![i] =
                    [q EXCEPT !.phase = "running", !.calls = r.calls,
                        !.snap = GetToken(tokens, OWNER_EMAIL), !.srv = srv]]
        /\ UNCHANGED << states, used, tokens >>

StartHandler ==
    \E i \in Slots :
        /\ reqs[i].phase = "pending"
        /\ LoopFree
        /\ IF reqs[i].op = "callback" THEN StartCallback(i)
           ELSE StartResolve(i)
        /\ UNCHANGED << now, ticks, configured, nextTok, issuedAt, storedIds,
                        last >>

\* requests.post returns or raises, and the handler runs to its return.
FinishCallback(i, resp) ==
    LET r == ExchangeAndStore(states, tokens, resp, now)
    IN  /\ tokens' = r.tokens
        /\ storedIds' = IF r.status = 200
                        THEN storedIds \cup {OWNER_EMAIL} ELSE storedIds
        /\ reqs' = Returned(i, [reqs[i] EXCEPT !.kind = resp.kind,
                                               !.status = r.status])

\* The refresh goes on with the token_data and refresh_token it read before
\* the POST, and store_token writes into the store as it is now.
FinishResolve(i, resp) ==
    LET read == [k \in {OWNER_EMAIL} |-> reqs[i].snap[1]]
        r == RefreshTokenIfNeeded(read, OWNER_EMAIL, resp, now)
        stores == r.tokens # read
    IN  /\ tokens' = IF stores
                     THEN [k \in DOMAIN tokens \cup {OWNER_EMAIL} |->
                             IF k = OWNER_EMAIL THEN r.tokens[OWNER_EMAIL]
                             ELSE tokens[k]]
                     ELSE tokens
        /\ storedIds' = IF stores
                        THEN storedIds \cup {OWNER_EMAIL} ELSE storedIds
        /\ reqs' = Returned(i, [reqs[i] EXCEPT !.kind = resp.kind,
                              !.served = IF stores THEN "new" ELSE "stale"])

FinishHandler ==
    \E i \in Slots :
        /\ reqs[i].phase = "running"
        /\ PostReturns(reqs[i].srv)
        /\ \E resp \in PostAnswers(reqs[i].srv) :
              IF reqs[i].op = "callback" THEN FinishCallback(i, resp)
              ELSE FinishResolve(i, resp)
        /\ UNCHANGED << now, ticks, configured, states, nextTok, issuedAt,
                        used, last >>

\* The clock steps are minutes and a handler lasts seconds: the clock moves
\* when no request is waiting or running, and the requests that have
\* returned leave their slots.
TickQuiet ==
    /\ Quiet
    /\ Events < MaxEvents
    /\ \E d \in ClockSteps : now' = now + d
    /\ ticks' = ticks + 1
    /\ reqs' = [i \in Slots |-> Idle]
    /\ UNCHANGED << configured, states, tokens, nextTok, issuedAt, used,
                    storedIds, last >>

\* GET /auth, when the loop is free to run it.
RedirectOnLoop ==
    /\ LoopFree
    /\ Events < MaxEvents
    /\ LET r == StartAuth(states, configured, nextTok, now)
       IN  /\ states' = r.states
           /\ nextTok' = IF r.status = 200 THEN nextTok + 1 ELSE nextTok
           /\ issuedAt' = IF r.status = 200
                          THEN [k \in DOMAIN issuedAt \cup {nextTok} |->
                                  IF k = nextTok THEN now ELSE issuedAt[k]]
                          ELSE issuedAt
    /\ UNCHANGED << now, ticks, configured, tokens, used, storedIds, reqs,
                    last >>

NextLoop ==
    TickQuiet \/ RedirectOnLoop \/ Arrive \/ StartHandler \/ FinishHandler

SpecLoop == Init /\ [][NextLoop]_vars

\* A handler inside requests.post goes on when the call returns.
SpecLoopFair == SpecLoop /\ WF_vars(FinishHandler)

\* ----------------------------------------------------------------- claims
\* A step is described by last': the call that was made and what it gave.
\* The unprimed variables are the state the call started from.

\* The callback of this step called verify_state on its state parameter.
Verifies(l) == l.op = "callback" /\ l.verified # "notcalled"

\* The state parameter s is live and at most TTL old when the call starts.
LiveAndFresh(s) == s \in DOMAIN states /\ now - states[s] <= TTL

\* C1 (as stated): every verify(t) of an issued token t returns true the
\* first time it is called and false every time after: true exactly once.
C1_ExactlyOnce ==
    [][(Verifies(last') /\ last'.state \in DOMAIN issuedAt)
        => (last'.verified = "true" <=> last'.state \notin used)]_vars

\* C1 (amended): verify(t) returns true at most once.  A verify(t) after one
\* that returned true returns false; verify returns true only for an issued
\* token that was not accepted before, and it does return true when t is in
\* the live set and at most TTL old.
C1_AtMostOnce ==
    [][Verifies(last')
        => /\ last'.state \in used => last'.verified = "false"
           /\ LiveAndFresh(last'.state) => last'.verified = "true"
           /\ last'.verified = "true"
                => /\ last'.state \in DOMAIN issuedAt
                   /\ last'.state \notin used
                   /\ last'.state \notin DOMAIN states']_vars

\* C1 witness: a token that was accepted once is presented again and refused.
C1_Witness ==
    /\ last.op = "callback"
    /\ last.verified = "false"
    /\ last.state \in used

\* C2: verify of a token issued more than TTL minutes ago returns false,
\* also when it is the first verify of that token.
C2_ExpiredRejected ==
    [][(Verifies(last') /\ last'.state \in DOMAIN issuedAt
            /\ now - issuedAt[last'.state] > TTL)
        => last'.verified = "false"]_vars

\* C2 witness: the first verify of a token (it was still in the live set,
\* which any earlier verify would have emptied) finds it too old.
C2_Witness ==
    /\ last.op = "callback"
    /\ last.live
    /\ last.verified = "false"
    /\ now - issuedAt[last.state] > TTL

\* The state parameter s is missing, unknown, expired or already used.
BadState(s) ==
    \/ s = NoState
    \/ s \notin DOMAIN issuedAt
    \/ now - issuedAt[s] > TTL
    \/ s \in used

\* C3: a callback with a code, no error and a missing, unknown, expired or
\* already-used state is answered 400 (CSRF) without a call to the token
\* endpoint; no callback reaches the token endpoint unless verify_state
\* returned true in it.
C3_CsrfBeforeExchange ==
    [][last'.op = "callback"
        => /\ (last'.code /\ ~last'.error /\ BadState(last'.state))
                => /\ last'.status = 400
                   /\ last'.reason = "csrf"
                   /\ last'.calls = 0
           /\ last'.calls > 0 => last'.verified = "true"]_vars

\* C3 witness: a callback with a code and a state that was never issued is
\* refused as CSRF with no exchange.
C3_Witness ==
    /\ last.op = "callback"
    /\ last.code /\ ~last.error
    /\ last.state = Forged
    /\ last.reason = "csrf"
    /\ last.calls = 0

\* The record store_token leaves for a 200 body stored at time t.
Stored(resp, t) ==
    [access_token |-> resp.access_token,
     refresh_token |-> resp.refresh_token, stored_at |-> t]

\* C4: end to end.  A callback with a code, no error and a state that
\* start_auth issued and that is still live makes one exchange, and when that
\* succeeds with (A, R) it answers 200 and the owner's record is (A, R); a
\* resolve(owner) right after it returns A and R; a later callback with the
\* same state is refused (as CSRF when it has a code and no error) and leaves
\* the records as they were.
C4_EndToEnd ==
    [][/\ (last'.op = "callback" /\ last'.code /\ ~last'.error
            /\ LiveAndFresh(last'.state))
          => /\ last'.verified = "true"
             /\ last'.calls = 1
             /\ last'.resp.kind = "ok"
                  => /\ last'.status = 200
                     /\ OWNER_EMAIL \in DOMAIN tokens'
                     /\ tokens'[OWNER_EMAIL] = Stored(last'.resp, now)
       /\ (last.op = "callback" /\ last.status = 200
            /\ last'.op = "resolve" /\ last'.id = OWNER_EMAIL)
          => /\ last'.ret = Some(Stored(last.resp, now))
             /\ last'.calls = 0
             /\ tokens' = tokens
       /\ (last'.op = "callback" /\ last'.state \in used)
          => /\ last'.status = 400
             /\ (last'.code /\ ~last'.error) => last'.reason = "csrf"
             /\ tokens' = tokens]_vars

\* C4 witness: the owner holds an access and a refresh token, and the state
\* that authorized them has just been presented again and refused as CSRF.
C4_Witness ==
    /\ last.op = "callback"
    /\ last.code /\ ~last.error
    /\ last.state \in used
    /\ last.reason = "csrf"
    /\ OWNER_EMAIL \in DOMAIN tokens
    /\ tokens[OWNER_EMAIL].access_token \in AccessTokens
    /\ tokens[OWNER_EMAIL].refresh_token \in RefreshTokens

\* C5: a resolve of a record older than the threshold that has a refresh
\* token makes exactly one refresh exchange; when the exchange succeeds with
\* no refresh token in its response, the record held afterwards has the
\* response's access token and the refresh token the record had before.
C5_RefreshKeepsRefreshToken ==
    [][(/\ last'.op = "resolve"
        /\ last'.id \in DOMAIN tokens
        /\ now - tokens[last'.id].stored_at > RefreshThreshold
        /\ tokens[last'.id].refresh_token # Absent)
        => /\ last'.calls = 1
           /\ (last'.resp.kind = "ok" /\ last'.resp.refresh_token = Absent)
                => /\ tokens'[last'.id].access_token
                        = last'.resp.access_token
                   /\ tokens'[last'.id].refresh_token
                        = tokens[last'.id].refresh_token
                   /\ tokens'[last'.id].stored_at = now]_vars

\* C5 witness: a refresh has succeeded with a response of a new access token
\* and no refresh token, and the record still has a refresh token.
C5_Witness ==
    /\ last.op = "resolve"
    /\ last.calls = 1
    /\ last.resp.kind = "ok"
    /\ last.resp.access_token \in AccessTokens
    /\ last.resp.refresh_token = Absent
    /\ tokens[last.id].access_token = last.resp.access_token
    /\ tokens[last.id].refresh_token \in RefreshTokens

\* C6: a resolve of a record whose age is at most the threshold returns the
\* stored record, leaves the store unchanged and makes no exchange.
C6_FreshUntouched ==
    [][(/\ last'.op = "resolve"
        /\ last'.id \in DOMAIN tokens
        /\ now - tokens[last'.id].stored_at <= RefreshThreshold)
        => /\ last'.ret = Some(tokens[last'.id])
           /\ tokens' = tokens
           /\ last'.calls = 0]_vars

\* C6 witness: a resolve of a record with a refresh token that is exactly
\* the threshold old made no exchange.
C6_Witness ==
    /\ last.op = "resolve"
    /\ last.id \in DOMAIN tokens
    /\ now - tokens[last.id].stored_at = RefreshThreshold
    /\ tokens[last.id].refresh_token # Absent
    /\ last.calls = 0
    /\ last.ret = Some(tokens[last.id])

\* C7: when the refresh exchange of a resolve fails (exception, timeout or
\* a status that is not 200), resolve raises nothing, returns the stale
\* record and leaves the store, stored-at included, as it was.
C7_FailedRefreshServesStale ==
    [][(last'.op = "resolve" /\ last'.calls > 0 /\ last'.resp.kind # "ok")
        => /\ ~last'.raised
           /\ last'.ret = Some(tokens[last'.id])
           /\ tokens' = tokens]_vars

\* C7 witness: a refresh exchange has timed out and resolve returned the
\* stale record.
C7_Witness ==
    /\ last.op = "resolve"
    /\ last.calls = 1
    /\ last.resp.kind = "timeout"
    /\ ~last.raised
    /\ last.ret = Some(tokens[last.id])
    /\ now - tokens[last.id].stored_at > RefreshThreshold

\* C8: resolve and get return absent for an identity store_token was never
\* called for, whatever the time and whatever ran before.
C8_NeverStoredAbsent ==
    [][(last'.op \in {"resolve", "get"} /\ last'.id \notin storedIds)
        => /\ last'.ret = None
           /\ last'.calls = 0]_vars

\* C8 witness: after the owner was authorized and time has passed, a resolve
\* of another identity returned absent.
C8_Witness ==
    /\ last.op = "resolve"
    /\ last.id \notin storedIds
    /\ OWNER_EMAIL \in storedIds
    /\ now > RefreshThreshold
    /\ last.ret = None

\* C9: a callback refused for an error parameter or a missing code does not
\* call verify_state and leaves the live set as it was, so a state that was
\* valid before it is still accepted by a callback after it.
C9_CallbackErrorSkipsGuard ==
    [][(last'.op = "callback" /\ (last'.error \/ ~last'.code))
        => /\ last'.status = 400
           /\ last'.reason \in {"oauth_error", "missing_code"}
           /\ last'.verified = "notcalled"
           /\ states' = states
           /\ LiveAndFresh(last'.state)
                => OauthCallback(states', tokens', TRUE, last'.state, FALSE,
                                 NoResp, now').verified = "true"]_vars

\* C9 witness: a callback with error set and a valid state was refused and
\* the state is still live.
C9_Witness ==
    /\ last.op = "callback"
    /\ last.error
    /\ last.reason = "oauth_error"
    /\ LiveAndFresh(last.state)

\* C10: a callback that is refused, for whatever reason, leaves the
\* credential records exactly as they were.
C10_RejectedKeepsStore ==
    [][(last'.op = "callback" /\ last'.status # 200) => tokens' = tokens]_vars

\* C10 witness: the exchange of a callback got a status that is not 200 and
\* the owner, who had no record, still has none.
C10_Witness ==
    /\ last.op = "callback"
    /\ last.reason = "exchange_failed"
    /\ OWNER_EMAIL \notin DOMAIN tokens

\* C11: a start_auth with the configuration complete puts exactly one new
\* token, stamped with the current time, into the live set and leaves the
\* credential records alone; with a configuration value missing it answers
\* 500 and issues no token.
C11_OneTokenPerRedirect ==
    [][last'.op = "start_auth"
        => /\ tokens' = tokens
           /\ configured
                => /\ last'.status = 200
                   /\ last'.state \notin DOMAIN issuedAt
                   /\ DOMAIN states' \ DOMAIN states = {last'.state}
                   /\ states'[last'.state] = now
                   /\ DOMAIN issuedAt' = DOMAIN issuedAt \cup {last'.state}
           /\ ~configured
                => /\ last'.status = 500
                   /\ states' = states
                   /\ issuedAt' = issuedAt]_vars

\* C11 witness: a second start_auth has added its token to a live set that
\* held one already.
C11_Witness ==
    /\ last.op = "start_auth"
    /\ last.status = 200
    /\ last.state \in DOMAIN states
    /\ Cardinality(DOMAIN states) = 2

\* C14 (as stated): after a successful refresh the value resolve returns is
\* the record the store now holds: same access token, refresh token and
\* stored-at.
C14_ReturnsStoredRecord ==
    [][(last'.op = "resolve" /\ last'.calls = 1 /\ last'.resp.kind = "ok")
        => last'.ret = Some(tokens'[last'.id])]_vars

\* C15 (as stated): every record the store holds contains an access token.
C15_RecordHasAccessToken ==
    \A id \in DOMAIN tokens : tokens[id].access_token # Absent

\* C16: after a callback has called verify_state on a token, the token is
\* not in the live set, whether it was found and valid, found and expired,
\* or not found.
C16_VerifiedTokenGone ==
    [][Verifies(last') => last'.state \notin DOMAIN states']_vars

\* C16 witness: verify_state found the token, found it too old, and the token
\* is gone from the live set.
C16_Witness ==
    /\ last.op = "callback"
    /\ last.live
    /\ last.verified = "false"
    /\ now - issuedAt[last.state] > TTL
    /\ last.state \notin DOMAIN states

\* C17: one resolve and one callback make at most one call to the token
\* endpoint each, also when that call fails; a failed refresh leaves the
\* record stale, and the resolve of the same identity that follows makes one
\* refresh call again.
C17_NoAutomaticRetry ==
    [][/\ last'.op \in {"resolve", "callback"} => last'.calls <= 1
       /\ (/\ last.op = "resolve" /\ last.calls >= 1
           /\ last.resp.kind # "ok"
           /\ last'.op = "resolve" /\ last'.id = last.id)
          => last'.calls = 1]_vars

\* C17 witness: a refresh failed, and the next resolve tried once more and
\* failed too.
C17_Witness ==
    /\ last.op = "resolve"
    /\ last.calls = 1
    /\ last.resp.kind = "error"
    /\ last.ret = Some(tokens[last.id])
    /\ now - tokens[last.id].stored_at > RefreshThreshold

\* C18: the owner's record is never destroyed: once it is stored, every
\* later state holds a record for the owner, and every get and resolve of
\* the owner returns one.
C18_RecordNeverDestroyed ==
    [][(OWNER_EMAIL \in DOMAIN tokens)
        => /\ OWNER_EMAIL \in DOMAIN tokens'
           /\ (last'.op \in {"resolve", "get"} /\ last'.id = OWNER_EMAIL)
                => /\ last'.ret # None
                   /\ last'.raised = FALSE]_vars

\* C18 witness: the owner has a record, a callback's exchange has failed
\* after it, and then a failed refresh still returned a record.
C18_Witness ==
    /\ last.op = "resolve"
    /\ last.id = OWNER_EMAIL
    /\ last.calls = 1
    /\ last.resp.kind = "status"
    /\ last.ret # None
    /\ Cardinality(used) = 2

\* C19 (as stated): start_auth's sweep removes only tokens older than the
\* TTL: a live token whose age is at most the TTL is still live after it.
C19_SweepKeepsUnexpired ==
    [][last'.op = "start_auth"
        => {k \in DOMAIN states : now - states[k] <= TTL}
              \subseteq DOMAIN states']_vars


\* ------------------------------------------- claims on the event loop

\* The handler of slot i runs in this step.
Starts(i) == reqs[i].phase = "pending" /\ reqs'[i].phase \in {"running", "done"}

\* The handler of slot i goes into its token-endpoint POST in this step.
Exchanges(i) == reqs[i].phase = "pending" /\ reqs'[i].phase = "running"

C12_Step ==
    \A i \in Slots :
        (Starts(i) /\ reqs[i].op = "callback" /\ reqs'[i].verified = "true")
            => /\ reqs[i].state \notin used
               /\ \A j \in Slots \ {i} :
                    ~ /\ reqs[j].op = "callback"
                      /\ reqs[j].state = reqs[i].state
                      /\ reqs[j].verified = "true"

\* C12: whatever the order in which the loop runs redirects and the
\* callbacks that have arrived, a callback whose state passes verification
\* and that goes on to the token exchange carries a state that no callback
\* passed verification with before, and no other callback in flight has
\* passed with it.
C12_OneCallbackPerState == [][C12_Step]_vars

\* Two callbacks with the same state were waiting together while it was
\* valid; one has passed verification with it and the other was rejected
\* within the state's lifetime.
C12_Witness ==
    \E j \in Slots :
        /\ reqs[j].phase = "done"
        /\ reqs[j].op = "callback"
        /\ reqs[j].ripe
        /\ reqs[j].verified = "false"
        /\ reqs[j].calls = 0
        /\ reqs[j].state \in used
        /\ now - issuedAt[reqs[j].state] <= TTL
        /\ \E i \in Slots \ {j} : reqs[i].phase = "gone"

\* What a handler whose server stayed silent has returned.
TimedOut(q) ==
    /\ q.kind = "timeout"
    /\ q.op = "callback" => q.status = 504
    /\ q.op = "resolve" => q.served = "stale"

\* C13: every handler that is inside its token-endpoint POST eventually
\* returns (no slot stays in the POST for ever); when the server never answers, the POST ends as a timeout and
\* the callback answers 504 while the resolve serves the record it read,
\* leaving the store as it was.
C13_HandlersReturn ==
    /\ \A i \in Slots : []<>(reqs[i].phase # "running")
    /\ [](\A i \in Slots :
            (reqs[i].phase = "done" /\ reqs[i].srv = "silent")
                => TimedOut(reqs[i]))
    /\ [][\A i \in Slots :
            (reqs[i].phase = "running" /\ reqs[i].srv = "silent"
                /\ reqs'[i].phase = "done") => tokens' = tokens]_vars

\* A resolve whose refresh met a silent server has returned the stale
\* record.
C13_Witness ==
    \E i \in Slots :
        /\ reqs[i].phase = "done"
        /\ reqs[i].op = "resolve"
        /\ reqs[i].srv = "silent"
        /\ reqs[i].served = "stale"
        /\ reqs[i].snap = Some(tokens[OWNER_EMAIL])

\* While a resolve is inside its refresh POST no other handler runs, and the
\* record in the store is the one the resolve read.
NoLostUpdate ==
    \A i \in Slots :
        (reqs[i].phase = "running" /\ reqs[i].op = "resolve")
            => /\ reqs[i].snap = GetToken(tokens, OWNER_EMAIL)
               /\ \A j \in Slots \ {i} : reqs[j].phase # "running"

\* Another resolve that arrived for the same stored record as slot i and did
\* a refresh exchange.
Refreshed(i, j) ==
    /\ j # i
    /\ reqs[j].op = "resolve"
    /\ reqs[j].stamp = reqs[i].stamp
    /\ reqs[j].calls = 1

C20_StepOriginal ==
    \A i \in Slots :
        (Exchanges(i) /\ reqs[i].op = "resolve")
            => \A j \in Slots : ~ Refreshed(i, j)

C20_Step ==
    \A i \in Slots :
        (Exchanges(i) /\ reqs[i].op = "resolve")
            => \A j \in Slots :
                  Refreshed(i, j)
                      => reqs[j].phase = "done" /\ reqs[j].kind # "ok"

\* C20 as stated: a refresh never finishes over a record newer than the one
\* it read, and of two resolves that arrived for the same stale record at
\* most one does a refresh exchange.
C20_NoSecondRefresh == []NoLostUpdate /\ [][C20_StepOriginal]_vars

\* C20: a refresh never finishes over a record newer than the one it read,
\* and of two resolves that arrived for the same stale record the second
\* does a refresh exchange only after the exchange of the first has failed.
C20_SecondRefreshAfterFailure == []NoLostUpdate /\ [][C20_Step]_vars

\* A resolve is inside its refresh POST while a callback with a valid state
\* and a second resolve of the same record wait for the loop.
C20_Witness ==
    \E i \in Slots :
        /\ reqs[i].phase = "running"
        /\ reqs[i].op = "resolve"
        /\ \E j \in Slots \ {i} :
              /\ reqs[j].phase = "pending"
              /\ \/ reqs[j].op = "callback" /\ reqs[j].ripe
                 \/ /\ reqs[j].op = "resolve"
                    /\ reqs[j].ripe
                    /\ reqs[j].stamp = reqs[i].stamp

====
